---- MODULE Spec2Model ----
(***************************************************************************)
(* Model of streamlit_app.py, the Carolina Auto Auction wholesale          *)
(* evaluator: the data load, the dropdown catalogue, the VIN decode, the   *)
(* sidebar resolution of the vehicle attributes, the memoized estimate     *)
(* and the comparables block.                                              *)
(*                                                                         *)
(* A Python str is a sequence of code points (<<72,79,78,68,65>> is        *)
(* "HONDA"), so that sorted(), str.upper() and difflib work on it as they  *)
(* do in Python.  None / NaN is the one-element sequence <<0>>, which no   *)
(* str of the model equals.                                                *)
(***************************************************************************)
EXTENDS Integers, Sequences, FiniteSets, TLC

VARIABLES
    df,             \* the loaded dataset: a sequence of rows (load_data)
    idx,            \* the result of build_dropdowns, empty before it ran
    now,            \* pd.Timestamp.now(): [year, month, tick]
    cache,          \* st.cache_data store of predict_value: feature records
    calls,          \* how often pipeline.predict ran, per feature record
    made_estimate,  \* st.session_state["made_estimate"]
    run             \* what the last script run computed and rendered

vars == <<df, idx, now, cache, calls, made_estimate, run>>

----------------------------------------------------------------------------
(* Python values *)

None == <<0>>

RECURSIVE StrLess(_, _)
\* a < b on str: lexicographic by code point, a proper prefix is smaller
StrLess(a, b) ==
    IF b = <<>> THEN FALSE
    ELSE IF a = <<>> THEN TRUE
    ELSE IF Head(a) # Head(b) THEN Head(a) < Head(b)
    ELSE StrLess(Tail(a), Tail(b))

StrMin(S) == CHOOSE x \in S : \A y \in S : y = x \/ StrLess(x, y)

RECURSIVE sorted(_)
\* sorted(xs.unique()): the distinct values S as an ascending list
sorted(S) ==
    IF S = {} THEN <<>>
    ELSE LET m == StrMin(S) IN <<m>> \o sorted(S \ {m})

Range(s) == {s[i] : i \in DOMAIN s}

IndexOf(s, x) == CHOOSE i \in DOMAIN s : s[i] = x /\ \A j \in 1..(i-1) : s[j] # x

----------------------------------------------------------------------------
(* load_data *)

fillna(v) == IF v = None THEN <<>> ELSE v

load_row(r) ==
    [r EXCEPT !.Make = fillna(@), !.Model = fillna(@), !.Series = fillna(@),
              !.EngineCode = fillna(@), !.Roof = fillna(@), !.Interior = fillna(@)]

load_data(raw) == [i \in DOMAIN raw |-> load_row(raw[i])]

----------------------------------------------------------------------------
(* build_dropdowns *)

Rows(d) == {d[i] : i \in DOMAIN d}

\* a faulty ModelsOf: the models of every make
ModelsOfAnyMake(d, mk) == sorted({r.Model : r \in Rows(d)})

ModelsOf(d, mk) == sorted({r.Model : r \in {x \in Rows(d) : x.Make = mk}})

SeriesOf(d, mk, mo) ==
    sorted({r.Series : r \in {x \in Rows(d) : x.Make = mk /\ x.Model = mo}})

TripleRows(d, mk, mo, ser) ==
    {x \in Rows(d) : x.Make = mk /\ x.Model = mo /\ x.Series = ser}

dropna(S) == S \ {None}

build_dropdowns(d) ==
    LET makes  == sorted({r.Make : r \in Rows(d)})
        models == [mk \in Range(makes) |-> ModelsOf(d, mk)]
        mkmo   == {<<mk, mo>> : mk \in Range(makes),
                                mo \in {r.Model : r \in Rows(d)}}
        pairs  == {p \in mkmo : p[2] \in Range(models[p[1]])}
        series == [p \in pairs |-> SeriesOf(d, p[1], p[2])]
        cand   == {<<p[1], p[2], ser>> : p \in pairs,
                                         ser \in {r.Series : r \in Rows(d)}}
        trips  == {t \in cand : t[3] \in Range(series[<<t[1], t[2]>>])}
    IN [makes     |-> makes,
        models    |-> models,
        series    |-> series,
        engines   |-> [t \in trips |->
                         sorted({r.EngineCode : r \in TripleRows(d, t[1], t[2], t[3])})],
        roofs     |-> [t \in trips |->
                         sorted({r.Roof : r \in TripleRows(d, t[1], t[2], t[3])})],
        interiors |-> [t \in trips |->
                         sorted({r.Interior : r \in TripleRows(d, t[1], t[2], t[3])})],
        regions   |-> sorted(dropna({r.Region : r \in Rows(d)})),
        colors    |-> sorted(dropna({r.Color : r \in Rows(d)}))]

----------------------------------------------------------------------------
(* dict.get and Python truthiness *)

EmptyDict == [k \in {} |-> None]

get(d, k, default) == IF k \in DOMAIN d THEN d[k] ELSE default

\* x or default, for a str-or-None x
OrElse(x, default) == IF x = None \/ x = <<>> THEN default ELSE x

----------------------------------------------------------------------------
(* decode_vin *)

IsDigit(c) == c >= 48 /\ c <= 57

RECURSIVE IntOfDigits(_, _)
IntOfDigits(s, acc) ==
    IF s = <<>> THEN acc ELSE IntOfDigits(Tail(s), acc * 10 + (Head(s) - 48))

\* int(s) raises ValueError unless s is a decimal numeral
IntRaises(s) == s = <<>> \/ \E i \in DOMAIN s : ~IsDigit(s[i])

upper(s) == [i \in DOMAIN s |-> IF s[i] >= 97 /\ s[i] <= 122 THEN s[i] - 32 ELSE s[i]]

\* The outcomes of requests.get(...).json()["Results"][0]: the call raises
\* (connection error, timeout), the body is not the expected JSON, or it
\* yields the dict r, whose values are str or None and whose keys may be absent.
decode_raises(resp) ==
    \/ resp.kind # "ok"
    \/ IntRaises(OrElse(get(resp.r, "ModelYear", None), <<48>>))
    \/ \E k \in {"Make", "Model", "Trim"} : get(resp.r, k, <<>>) = None

decoded_year(resp) == IntOfDigits(OrElse(get(resp.r, "ModelYear", None), <<48>>), 0)

decode_vin(resp) ==
    IF decode_raises(resp) THEN EmptyDict
    ELSE [Year   |-> decoded_year(resp),
          Make   |-> upper(get(resp.r, "Make", <<>>)),
          Model  |-> upper(get(resp.r, "Model", <<>>)),
          Series |-> upper(get(resp.r, "Trim", <<>>)),
          Disp   |-> OrElse(get(resp.r, "EngineDisplacementL", None), <<>>),
          EngMod |-> OrElse(get(resp.r, "EngineModel", None), <<>>)]

----------------------------------------------------------------------------
(* difflib.get_close_matches(word, possibilities, n=1), cutoff 0.6 *)

RECURSIVE RunLen(_, _, _, _, _, _)
\* length of the common run of a[i..ahi-1] and b[j..bhi-1] from their starts
RunLen(a, b, i, j, ahi, bhi) ==
    IF i < ahi /\ j < bhi /\ a[i] = b[j]
    THEN 1 + RunLen(a, b, i + 1, j + 1, ahi, bhi) ELSE 0

\* SequenceMatcher.find_longest_match without junk: the longest block, of
\* those the one starting earliest in a, of those the one earliest in b
find_longest_match(a, b, alo, ahi, blo, bhi) ==
    LET P    == (alo..(ahi - 1)) \X (blo..(bhi - 1))
        L    == [p \in P |-> RunLen(a, b, p[1], p[2], ahi, bhi)]
        k    == CHOOSE n \in {L[p] : p \in P} : \A q \in P : L[q] <= n
        B    == {p \in P : L[p] = k}
        best == CHOOSE p \in B :
                  \A q \in B : p[1] < q[1] \/ (p[1] = q[1] /\ p[2] <= q[2])
    IN [i |-> best[1], j |-> best[2], size |-> k]

RECURSIVE matches(_, _, _, _, _, _)
\* sum of the sizes of SequenceMatcher.get_matching_blocks
matches(a, b, alo, ahi, blo, bhi) ==
    IF alo >= ahi \/ blo >= bhi THEN 0
    ELSE LET m == find_longest_match(a, b, alo, ahi, blo, bhi)
         IN IF m.size = 0 THEN 0
            ELSE m.size + matches(a, b, alo, m.i, blo, m.j)
                        + matches(a, b, m.i + m.size, ahi, m.j + m.size, bhi)

\* ratio() = 2.0*M/T as the pair <<2M, T>>; 1.0 when both are empty
ratio(a, b) ==
    IF Len(a) + Len(b) = 0 THEN <<1, 1>>
    ELSE <<2 * matches(a, b, 1, Len(a) + 1, 1, Len(b) + 1), Len(a) + Len(b)>>

RatioLess(p, q) == p[1] * q[2] < q[1] * p[2]

\* ratio >= 0.6
above_cutoff(p) == p[1] * 5 >= 3 * p[2]

\* every x with ratio >= cutoff, seq2 = word and seq1 = x (the quick ratios
\* tested first are upper bounds of ratio); heapq.nlargest(1, ...) keeps the
\* largest (score, x) pair
get_close_matches(word, possibilities) ==
    LET R  == [x \in Range(possibilities) |-> ratio(x, word)]
        ok == {x \in Range(possibilities) : above_cutoff(R[x])}
    IN IF ok = {} THEN <<>>
       ELSE <<CHOOSE x \in ok :
                \A y \in ok :
                    \/ y = x
                    \/ RatioLess(R[y], R[x])
                    \/ ~RatioLess(R[x], R[y]) /\ StrLess(y, x)>>

-----
(* the sidebar: VIN override and the manual widgets *)

\* st.selectbox(label, options, index): None without options, the option at
\* index until the user picks one (pick = 0), then the option picked
selectbox(options, index, pick) ==
    IF options = <<>> THEN None
    ELSE IF pick = 0 THEN options[index] ELSE options[pick]

\* options.index(want) if want in options else 0 (here 1-based)
preselect(options, want) ==
    IF want \in Range(options) THEN IndexOf(options, want) ELSE 1

vin_lookup(vi) == IF vi.vin THEN decode_vin(vi.resp) ELSE EmptyDict

use_vin_of(vi, decoded) == vi.vin /\ get(decoded, "Year", 0) > 0

select_year(decoded, use_vin, yp) == IF use_vin THEN get(decoded, "Year", None) ELSE yp

select_make(D, decoded, mp) ==
    selectbox(D.makes, preselect(D.makes, get(decoded, "Make", None)), mp)

select_model(D, decoded, make, op) ==
    selectbox(D.models[make],
              preselect(D.models[make], get(decoded, "Model", None)), op)

select_series(D, decoded, make, model, sp) ==
    selectbox(D.series[<<make, model>>],
              preselect(D.series[<<make, model>>], get(decoded, "Series", None)), sp)

\* _engines.get((make,model,series),[]) and the same for roofs and interiors
options_for(table, make, model, series) == get(table, <<make, model, series>>, <<>>)

engine_suggest(decoded, use_vin, elist) ==
    IF use_vin /\ get(decoded, "Disp", <<>>) # <<>>
    THEN get_close_matches(decoded.Disp, elist)
    ELSE IF use_vin /\ OrElse(get(decoded, "EngMod", None), <<>>) # <<>>
    THEN get_close_matches(decoded.EngMod, elist)
    ELSE <<>>

select_engine(decoded, use_vin, elist, ep) ==
    LET suggest == engine_suggest(decoded, use_vin, elist)
    IN IF suggest # <<>> THEN suggest[1] ELSE selectbox(elist, 1, ep)

----------------------------------------------------------------------------
(* predict_value and do_estimate *)

MaxCalls == 2

\* the str of a value: astype(str) turns None into "None"
astype_str(v) == IF v = None THEN <<78, 111, 110, 101>> ELSE v

\* the one-row frame handed to the pipeline
frame(feat) ==
    [feat EXCEPT !.Make = astype_str(@), !.Model = astype_str(@),
                 !.Series = astype_str(@), !.EngineCode = astype_str(@),
                 !.Drivable = astype_str(@), !.Region = astype_str(@),
                 !.Color = astype_str(@), !.Roof = astype_str(@),
                 !.Interior = astype_str(@)]

\* float(np.exp(_pipeline.predict(rec)[0])): the pipeline is opaque, its
\* answer for a frame is a value named by that frame
price_of(feat) == [exp |-> [predict |-> frame(feat)]]

\* a faulty cache_key: a key that leaves Engine Code out
CacheKeyWithoutEngine(feat) == [feat EXCEPT !.EngineCode = <<>>]

\* st.cache_data keys an entry by the hashed arguments; _pipeline, with its
\* leading underscore, is left out of the key
cache_key(feat) == feat

\* predict_value under st.cache_data: [val, cache, invoked]
predict_value(c, feat) ==
    LET k == cache_key(feat)
    IN IF k \in DOMAIN c
       THEN [val |-> c[k], cache |-> c, invoked |-> FALSE]
       ELSE [val |-> price_of(feat),
             cache |-> [x \in DOMAIN c \cup {k} |->
                          IF x = k THEN price_of(feat) ELSE c[x]],
             invoked |-> TRUE]

feats_of(year, make, model, series, engine, grade, mileage, drivable, region, color, roof, interior, clock) ==
    [Year |-> year, Make |-> make, Model |-> model, Series |-> series,
     EngineCode |-> engine, Grade |-> grade, Mileage |-> mileage,
     Drivable |-> drivable, Region |-> region, Color |-> color,
     Roof |-> roof, Interior |-> interior,
     sale_month |-> clock.month, age |-> clock.year - year]

----------------------------------------------------------------------------
(* the comparables block *)

LookbackDays == 120

HeadRows == 10

\* a Sold Date is a day at midnight; time counts hours
Midnight(day) == day * 24

cutoff_of(clock) == clock.tick - LookbackDays * 24

\* a faulty between: exclusive on both sides
YearWindowExclusive(y, year) == y > year - 2 /\ y < year + 2

\* Series.between(low, high), inclusive on both sides
between(y, year) == y >= year - 2 /\ y <= year + 2

subset_of(d, clock, year, make, model, series) ==
    {i \in DOMAIN d :
        /\ Midnight(d[i].SoldDay) >= cutoff_of(clock)
        /\ between(d[i].Year, year)
        /\ d[i].Make = make
        /\ d[i].Model = model
        /\ d[i].Series = series}

RECURSIVE sort_values_desc(_, _)
\* sort_values("Sold Date", ascending=False): the orders of the rows S of d by
\* Sold Date descending; the sort is not stable, rows of one date come in any order
sort_values_desc(d, S) ==
    IF S = {} THEN {<<>>}
    ELSE LET top == {i \in S : \A j \in S : d[j].SoldDay <= d[i].SoldDay}
         IN UNION {{<<i>> \o t : t \in sort_values_desc(d, S \ {i})} : i \in top}

head(s, n) == SubSeq(s, 1, IF Len(s) < n THEN Len(s) ELSE n)

\* the marks of alt.Chart(subset).mark_line(point=True) with x = Sold Date and
\* y = Sale Price: one point per row of the subset
chart_of(d, S) == [i \in S |-> <<d[i].SoldDay, d[i].Price>>]

----------------------------------------------------------------------------
(* the values the datasets and the inputs are drawn from *)

HONDA == <<72, 79, 78, 68, 65>>   \* "HONDA"
FORD == <<70, 79, 82, 68>>   \* "FORD"
TESLA == <<84, 69, 83, 76, 65>>   \* "TESLA"
CIVIC == <<67, 73, 86, 73, 67>>   \* "CIVIC"
F150 == <<70, 49, 53, 48>>   \* "F150"
EX == <<69, 88>>   \* "EX"
TURBO20 == <<50, 46, 48, 76, 32, 84, 85, 82, 66, 79>>   \* "2.0L TURBO"
L18 == <<49, 46, 56, 76>>   \* "1.8L"
L50 == <<53, 46, 48, 76>>   \* "5.0L"
HARD == <<72, 65, 82, 68>>   \* "HARD"
CLOTH == <<67, 76, 79, 84, 72>>   \* "CLOTH"
SE == <<83, 69>>   \* "SE"
RED == <<82, 69, 68>>   \* "RED"
Yes == <<89, 101, 115>>   \* "Yes"
No == <<78, 111>>   \* "No"

Row(year, make, model, series, engine, roof, day, price) ==
    [Year |-> year, Make |-> make, Model |-> model, Series |-> series,
     EngineCode |-> engine, Roof |-> roof, Interior |-> CLOTH,
     Region |-> SE, Color |-> RED, SoldDay |-> day, Price |-> price]

\* the spreadsheet as read, before load_data: a null cell is None.
\* Today is day 1000, so the 120-day cutoff falls on day 880.
VinSheet ==
    << Row(2020, HONDA, CIVIC, EX, TURBO20, HARD, 990, 18000),
       Row(2021, HONDA, CIVIC, EX, L18, HARD, 980, 20000),
       Row(2019, FORD, F150, None, L50, None, 950, 30000) >>

SmallSheet ==
    << Row(2020, HONDA, CIVIC, EX, TURBO20, HARD, 990, 18000),
       Row(2020, HONDA, CIVIC, EX, L18, HARD, 990, 19000),
       Row(2021, HONDA, CIVIC, EX, L18, HARD, 990, 20000) >>

LongSheet ==
    << Row(2020, HONDA, CIVIC, EX, TURBO20, HARD, 999, 18100),
       Row(2020, HONDA, CIVIC, EX, TURBO20, HARD, 998, 18200),
       Row(2018, HONDA, CIVIC, EX, L18, HARD, 997, 15300),
       Row(2022, HONDA, CIVIC, EX, L18, HARD, 996, 21400),
       Row(2020, HONDA, CIVIC, EX, L18, HARD, 995, 18500),
       Row(2017, HONDA, CIVIC, EX, L18, HARD, 994, 14000),
       Row(2023, HONDA, CIVIC, EX, L18, HARD, 993, 25000),
       Row(2021, HONDA, CIVIC, EX, L18, HARD, 992, 19600),
       Row(2021, HONDA, CIVIC, EX, L18, HARD, 991, 19700),
       Row(2019, HONDA, CIVIC, EX, L18, HARD, 990, 17800),
       Row(2019, HONDA, CIVIC, EX, L18, HARD, 989, 17900),
       Row(2020, HONDA, CIVIC, EX, L18, HARD, 950, 18000),
       Row(2020, HONDA, CIVIC, EX, L18, HARD, 950, 18100),
       Row(2020, HONDA, CIVIC, EX, L18, HARD, 881, 18200),
       Row(2020, HONDA, CIVIC, EX, L18, HARD, 882, 18400),
       Row(2020, HONDA, CIVIC, EX, L18, HARD, 880, 18300),
       Row(2020, HONDA, CIVIC, EX, L18, HARD, 870, 18000),
       Row(2020, FORD, F150, None, L50, None, 990, 30000) >>

NoonClock == [year |-> 2025, month |-> 6, tick |-> Midnight(1000) + 12]

Clocks == {[year |-> 2025, month |-> 6, tick |-> Midnight(1000)], NoonClock}

\* the VIN box: empty, or a VIN and what the decoding service does with it
Ok(r) == [vin |-> TRUE, resp |-> [kind |-> "ok", r |-> r]]

VinInputs ==
    {[vin |-> FALSE, resp |-> [kind |-> "none"]],
     [vin |-> TRUE, resp |-> [kind |-> "error"]],
     [vin |-> TRUE, resp |-> [kind |-> "malformed"]],
     Ok([ModelYear |-> <<50, 48, 50, 48>>, Make |-> <<72, 111, 110, 100, 97>>,
         Model |-> <<67, 105, 118, 105, 99>>, Trim |-> EX,
         EngineDisplacementL |-> <<50, 46, 48, 76>>, EngineModel |-> <<75, 50, 48>>]),
     Ok([ModelYear |-> <<50, 48, 50, 48>>, Make |-> HONDA, Model |-> CIVIC, Trim |-> EX,
         EngineDisplacementL |-> <<57, 46, 57>>, EngineModel |-> TURBO20]),
     Ok([ModelYear |-> <<50, 48, 50, 48>>, Make |-> HONDA, Model |-> CIVIC, Trim |-> EX,
         EngineDisplacementL |-> None, EngineModel |-> L18]),
     Ok([ModelYear |-> <<50, 48, 50, 48>>, Make |-> HONDA, Model |-> CIVIC, Trim |-> EX,
         EngineDisplacementL |-> <<50, 46, 48, 76, 32, 84, 85, 82, 66>>]),
     Ok([ModelYear |-> <<50, 48, 50, 49>>, Make |-> TESLA, Model |-> <<51>>, Trim |-> <<>>]),
     Ok([ModelYear |-> <<48>>, Make |-> HONDA, Model |-> CIVIC, Trim |-> EX,
         EngineDisplacementL |-> L18, EngineModel |-> <<>>]),
     Ok([Make |-> HONDA, Model |-> CIVIC, Trim |-> EX]),
     Ok([ModelYear |-> <<78, 47, 65>>, Make |-> HONDA, Model |-> CIVIC, Trim |-> EX]),
     Ok([ModelYear |-> <<50, 48, 50, 48>>, Make |-> None, Model |-> CIVIC, Trim |-> EX])}

HistVinInputs == {v \in VinInputs : v.resp.kind \in {"none", "error"}}

\* st.sidebar.number_input("Model Year", 1980, now.year, now.year)
YearInputs(clock) == {clock.year, 2020}

GradeInputs == {30}

MileageInputs == {50000}

DrivableOptions == <<Yes, No>>

DrivableInputs == {0}

\* what a user can do to a selectbox: leave it (0) or pick an option other
\* than the one it shows
Picks(options, index) ==
    {0} \cup {k \in DOMAIN options : options[k] # options[index]}

----------------------------------------------------------------------------
(* the script: one run per user interaction *)

NoRun == [kind |-> "start"]

\* the comparables block, rendered once made_estimate is set
Comparables(made, year, make, model, series) ==
    LET subset == subset_of(df, now, year, make, model, series)
    IN IF ~made
       THEN {[shown |-> "none", subset |-> {}, chart |-> EmptyDict, last10 |-> <<>>]}
       ELSE IF subset = {}
       THEN {[shown |-> "no_data", subset |-> {}, chart |-> EmptyDict, last10 |-> <<>>]}
       ELSE {[shown |-> "history", subset |-> subset,
              chart |-> chart_of(df, subset), last10 |-> head(s, HeadRows)] :
                s \in sort_values_desc(df, subset)}

\* lines 106-206, top to bottom, for one state of the widgets; pressed is the
\* Estimate button.  Each value is bound once, in the order the script
\* computes it.  With no make at all line 128 raises KeyError and nothing is
\* rendered; the datasets here have rows.  MaxCalls caps the cache.
Script(vi, yp, grade, mileage, pressed) ==
    /\ run.kind # "start"
    /\ idx.makes # <<>>
    /\ \E decoded \in {vin_lookup(vi)} :
       \E use_vin \in {use_vin_of(vi, decoded)} :
       \E year \in {select_year(decoded, use_vin, yp)} :
       \E mp \in Picks(idx.makes, preselect(idx.makes, get(decoded, "Make", None))) :
       \E make \in {select_make(idx, decoded, mp)} :
       \E op \in Picks(idx.models[make],
                       preselect(idx.models[make], get(decoded, "Model", None))) :
       \E model \in {select_model(idx, decoded, make, op)} :
       \E sp \in Picks(idx.series[<<make, model>>],
                       preselect(idx.series[<<make, model>>],
                                 get(decoded, "Series", None))) :
       \E series \in {select_series(idx, decoded, make, model, sp)} :
       \E elist \in {options_for(idx.engines, make, model, series)},
          rlist \in {options_for(idx.roofs, make, model, series)},
          ilist \in {options_for(idx.interiors, make, model, series)} :
       \E ep \in Picks(elist, 1), rp \in Picks(rlist, 1), ip \in Picks(ilist, 1),
          dp \in DrivableInputs,
          gp \in Picks(idx.regions, 1), cp \in Picks(idx.colors, 1) :
       \E engine \in {select_engine(decoded, use_vin, elist, ep)} :
       \E feats \in {feats_of(year, make, model, series, engine, grade, mileage,
                              selectbox(DrivableOptions, 1, dp),
                              selectbox(idx.regions, 1, gp),
                              selectbox(idx.colors, 1, cp),
                              selectbox(rlist, 1, rp),
                              selectbox(ilist, 1, ip), now)} :
       \E est \in {predict_value(cache, feats)} :
       \E made \in {made_estimate \/ pressed} :
       /\ pressed /\ est.invoked => Cardinality(DOMAIN cache) < MaxCalls
       /\ cache' = IF pressed THEN est.cache ELSE cache
       /\ calls' = IF pressed /\ est.invoked
                   THEN [f \in DOMAIN calls \cup {feats} |->
                           IF f = feats THEN get(calls, f, 0) + 1 ELSE calls[f]]
                   ELSE calls
       /\ made_estimate' = made
       /\ \E c \in Comparables(made, year, make, model, series) :
            run' = [kind |-> "run", vi |-> vi, decoded |-> decoded,
                    use_vin |-> use_vin,
                    picks |-> [make |-> mp, model |-> op, series |-> sp,
                               engine |-> ep, year |-> yp],
                    elist |-> elist, widgets |-> feats,
                    pressed |-> pressed,
                    feats |-> IF pressed THEN feats ELSE EmptyDict,
                    val |-> IF pressed THEN est.val ELSE EmptyDict,
                    invoked |-> pressed /\ est.invoked,
                    shown |-> c.shown, subset |-> c.subset,
                    chart |-> c.chart, last10 |-> c.last10]
       /\ UNCHANGED <<df, idx, now>>

\* lines 101-104: the cached loads, run once per process
LoadOnce ==
    /\ run.kind = "start"
    /\ idx' = build_dropdowns(df)
    /\ run' = [kind |-> "loaded"]
    /\ UNCHANGED <<df, now, cache, calls, made_estimate>>

\* a widget changed: the script reruns without the button
Rerun(V, Y) ==
    \E vi \in V, yp \in Y, grade \in GradeInputs, mileage \in MileageInputs :
        Script(vi, yp, grade, mileage, FALSE)

\* "Estimate Wholesale Value" pressed: the script reruns and calls do_estimate
Estimate(V, Y) ==
    \E vi \in V, yp \in Y, grade \in GradeInputs, mileage \in MileageInputs :
        Script(vi, yp, grade, mileage, TRUE)

Start(sheets, clocks) ==
    /\ df \in {load_data(raw) : raw \in sheets}
    /\ idx = EmptyDict
    /\ now \in clocks
    /\ cache = EmptyDict
    /\ calls = EmptyDict
    /\ made_estimate = FALSE
    /\ run = NoRun

\* the VIN path and the estimate, on a catalogue of two makes
Init == Start({VinSheet}, {NoonClock})

Next ==
    \/ LoadOnce
    \/ Rerun(VinInputs, {now.year})
    \/ Estimate(VinInputs, {now.year})

Spec == Init /\ [][Next]_vars

\* the comparables block, on sheets with rows around the window's edges
InitHist == Start({SmallSheet, LongSheet}, Clocks)

NextHist ==
    \/ LoadOnce
    \/ Rerun(HistVinInputs, YearInputs(now))
    \/ Estimate(HistVinInputs, YearInputs(now))

SpecHist == InitHist /\ [][NextHist]_vars

----------------------------------------------------------------------------
(* build_dropdowns on its own: every dataset of up to MaxRows rows *)

MaxRows == 3

CatUniverse ==
    {[Year |-> 2020, Make |-> mk, Model |-> mo, Series |-> ser, EngineCode |-> en,
      Roof |-> IF (mo = CIVIC) = (en = L18) THEN HARD ELSE <<>>,
      Interior |-> IF (mk = FORD) = (ser = EX) THEN CLOTH ELSE <<>>,
      Region |-> SE, Color |-> RED, SoldDay |-> 990, Price |-> 18000] :
        mk \in {FORD, HONDA}, mo \in {CIVIC, F150}, ser \in {<<>>, EX},
        en \in {L18, TURBO20}}

CatFrames == UNION {[1..n -> CatUniverse] : n \in 0..MaxRows}

InitCat ==
    /\ df \in CatFrames
    /\ idx = EmptyDict
    /\ now = NoonClock
    /\ cache = EmptyDict
    /\ calls = EmptyDict
    /\ made_estimate = FALSE
    /\ run = NoRun

NextCat == LoadOnce

SpecCat == InitCat /\ [][NextCat]_vars

----------------------------------------------------------------------------
(* C3 *)

StrictlyAscending(s) == \A i \in 1..(Len(s) - 1) : StrLess(s[i], s[i + 1])

\* s lists exactly the values S, each once, in ascending order
Lists(s, S) == StrictlyAscending(s) /\ Range(s) = S

\* C3: build_dropdowns returns a faithful sorted projection of the records:
\* makes lists the distinct Make values; models has one key per make and lists
\* the distinct Model values of its records; series has one key per
\* (Make, Model) of a record and lists that pair's distinct Series; engines,
\* roofs and interiors have one key per (Make, Model, Series) of a record and
\* list that triple's distinct Engine Code, Roof and Interior values.
C3_FaithfulProjection ==
    run.kind = "loaded" =>
        LET R == Rows(df) IN
        /\ Lists(idx.makes, {r.Make : r \in R})
        /\ DOMAIN idx.models = {r.Make : r \in R}
        /\ \A mk \in DOMAIN idx.models :
              Lists(idx.models[mk], {r.Model : r \in {x \in R : x.Make = mk}})
        /\ DOMAIN idx.series = {<<r.Make, r.Model>> : r \in R}
        /\ \A p \in DOMAIN idx.series :
              Lists(idx.series[p],
                    {r.Series : r \in {x \in R : <<x.Make, x.Model>> = p}})
        /\ \A tab \in {"engines", "roofs", "interiors"} :
              DOMAIN idx[tab] = {<<r.Make, r.Model, r.Series>> : r \in R}
        /\ \A t \in {<<r.Make, r.Model, r.Series>> : r \in R} :
              LET T == {x \in R : <<x.Make, x.Model, x.Series>> = t} IN
              /\ Lists(idx.engines[t], {r.EngineCode : r \in T})
              /\ Lists(idx.roofs[t], {r.Roof : r \in T})
              /\ Lists(idx.interiors[t], {r.Interior : r \in T})

\* two makes, one of them with two engine codes under one triple, and a
\* make whose models are not all the models of the dataset
C3_Witness ==
    /\ run.kind = "loaded"
    /\ Len(idx.makes) = 2
    /\ \E t \in DOMAIN idx.engines : Len(idx.engines[t]) = 2
    /\ \E mk \in DOMAIN idx.models :
          Range(idx.models[mk]) # {r.Model : r \in Rows(df)}

----------------------------------------------------------------------------
(* C1 *)

\* C1: the pipeline's predict runs at most once per distinct feature record,
\* and every estimate returns the pipeline's value for its own feature
\* record: a repeated record is served from the cache, without an
\* invocation, and never with a value cached for another record.
C1_Memoized ==
    /\ \A f \in DOMAIN calls : calls[f] <= 1
    /\ run.kind = "run" /\ run.pressed =>
          /\ run.val = price_of(run.feats)
          /\ run.feats \in DOMAIN calls
          /\ run.invoked => calls[run.feats] = 1

\* an estimate served from the cache while the cache holds another record too
C1_Witness ==
    /\ run.kind = "run" /\ run.pressed /\ ~run.invoked
    /\ Cardinality(DOMAIN cache) >= 2
    /\ \E f \in DOMAIN cache : f # run.feats /\ f.EngineCode # run.feats.EngineCode

----------------------------------------------------------------------------
(* C6 *)

\* the records the claim's filter keeps, for the vehicle the sidebar resolved
Matching ==
    {i \in DOMAIN df :
        /\ df[i].Make = run.widgets.Make
        /\ df[i].Model = run.widgets.Model
        /\ df[i].Series = run.widgets.Series
        /\ df[i].SoldDay * 24 >= now.tick - 120 * 24
        /\ df[i].Year \in (run.widgets.Year - 2)..(run.widgets.Year + 2)}

\* C6: once an estimate was made, the recent-transactions list holds the (at
\* most 10) matching records with the latest Sold Date, each once, in
\* descending Sold Date order; with no matching record the no-data state is
\* produced, and neither chart nor table.
C6_RecentTransactions ==
    run.kind = "run" /\ made_estimate =>
        IF Matching = {}
        THEN run.shown = "no_data" /\ run.last10 = <<>> /\ DOMAIN run.chart = {}
        ELSE /\ run.shown = "history"
             /\ Len(run.last10) = IF Cardinality(Matching) < 10
                                  THEN Cardinality(Matching) ELSE 10
             /\ Range(run.last10) \subseteq Matching
             /\ \A i, j \in DOMAIN run.last10 :
                   i < j => /\ run.last10[i] # run.last10[j]
                            /\ df[run.last10[i]].SoldDay >= df[run.last10[j]].SoldDay
             /\ \A k \in Matching \ Range(run.last10) :
                   \A i \in DOMAIN run.last10 :
                       df[k].SoldDay <= df[run.last10[i]].SoldDay

\* more than 10 records match, among them one on each edge of the year
\* window, and the table is cut to 10
C6_Witness ==
    /\ run.kind = "run" /\ run.shown = "history"
    /\ Cardinality(Matching) > 10
    /\ Len(run.last10) = 10
    /\ \E i, j \in Range(run.last10) :
          /\ df[i].Year = run.widgets.Year - 2
          /\ df[j].Year = run.widgets.Year + 2

----------------------------------------------------------------------------
(* C5 *)

\* twice the median of the Sale Price of the rows I (all of one day)
TwiceMedian(I) ==
    LET RECURSIVE Ordered(_)
        Ordered(J) ==
            IF J = {} THEN <<>>
            ELSE LET m == CHOOSE i \in J : \A j \in J : df[i].Price <= df[j].Price
                 IN <<df[m].Price>> \o Ordered(J \ {m})
        s == Ordered(I)
        n == Len(s)
    IN IF n % 2 = 1 THEN 2 * s[(n + 1) \div 2] ELSE s[n \div 2] + s[n \div 2 + 1]

\* C5: the chart holds one point per calendar day, the median Sale Price of
\* the matching records sold that day.
C5_DailyMedian ==
    run.kind = "run" /\ run.shown = "history" =>
        /\ {run.chart[i][1] : i \in DOMAIN run.chart} = {df[i].SoldDay : i \in Matching}
        /\ \A i, j \in DOMAIN run.chart :
              run.chart[i][1] = run.chart[j][1] => i = j
        /\ \A i \in DOMAIN run.chart :
              2 * run.chart[i][2] =
                  TwiceMedian({k \in Matching : df[k].SoldDay = run.chart[i][1]})

----------------------------------------------------------------------------
(* C2 *)

\* the decoding service failed for the VIN entered: the call raised, the
\* body was malformed, or ModelYear was 0 or absent
DecodeFailed ==
    /\ run.vi.vin
    /\ \/ run.vi.resp.kind # "ok"
       \/ get(run.vi.resp.r, "ModelYear", <<48>>) \in {<<48>>, <<>>, None}

\* C2: after a decode failure the VIN path is not taken and no decoded field
\* reaches the feature values: Year, Make, Model, Series and Engine Code are
\* what the same widgets give with no VIN entered.
C2_FailureLeavesNoTrace ==
    run.kind = "run" /\ DecodeFailed =>
        /\ ~run.use_vin
        /\ run.widgets.Year = run.picks.year
        /\ run.widgets.Make = selectbox(idx.makes, 1, run.picks.make)
        /\ run.widgets.Model =
              selectbox(idx.models[run.widgets.Make], 1, run.picks.model)
        /\ run.widgets.Series =
              selectbox(idx.series[<<run.widgets.Make, run.widgets.Model>>], 1,
                        run.picks.series)
        /\ run.widgets.EngineCode = selectbox(run.elist, 1, run.picks.engine)

----------------------------------------------------------------------------
(* C10 *)

\* C10: after a successful decode (Year > 0) Year, Make, Model and Series
\* are the decoded values, whatever the catalogue and the widgets hold;
\* without one they are the manual selections.
C10_VinWins ==
    run.kind = "run" =>
        IF run.vi.vin /\ get(run.decoded, "Year", 0) > 0
        THEN /\ run.widgets.Year = run.decoded.Year
             /\ run.widgets.Make = run.decoded.Make
             /\ run.widgets.Model = run.decoded.Model
             /\ run.widgets.Series = run.decoded.Series
        ELSE run.widgets.Year = run.picks.year

----------------------------------------------------------------------------
(* C7 *)

\* C7: a decoded Displacement "2.0L" against the engine options "1.8L" and
\* "2.0L TURBO" resolves Engine Code to "2.0L TURBO".
C7_ClosestEngine ==
    /\ run.kind = "run" /\ run.use_vin
    /\ run.decoded.Disp = <<50, 46, 48, 76>>
    /\ Range(run.elist) = {TURBO20, L18}
    => run.widgets.EngineCode = TURBO20

----------------------------------------------------------------------------
(* C9 *)

\* the strings of `options` a word resembles (mirrors the acceptance test)
Resembling(word, options) ==
    {x \in Range(options) :
        10 * 2 * matches(x, word, 1, Len(x) + 1, 1, Len(word) + 1)
            >= 6 * (Len(x) + Len(word))}

\* C9: after a successful decode the Displacement is matched first; if it is
\* supplied and matches nothing, the EngineModel is matched next; the manual
\* selection is used only when neither matches.
C9_EngineOrder ==
    run.kind = "run" /\ run.use_vin =>
        LET byDisp == IF run.decoded.Disp = <<>> THEN {}
                      ELSE Resembling(run.decoded.Disp, run.elist)
            byMod  == IF run.decoded.EngMod = <<>> THEN {}
                      ELSE Resembling(run.decoded.EngMod, run.elist)
        IN IF byDisp # {} THEN run.widgets.EngineCode \in byDisp
           ELSE IF byMod # {} THEN run.widgets.EngineCode \in byMod
           ELSE run.widgets.EngineCode = selectbox(run.elist, 1, run.picks.engine)

----------------------------------------------------------------------------
(* C8 *)

\* C8: an estimate that proceeds is made from a fully populated feature
\* record: no categorical field is null or the empty string.
C8_FullyPopulated ==
    run.kind = "run" /\ run.pressed =>
        \A k \in {"Make", "Model", "Series", "EngineCode", "Drivable", "Region",
                  "Color", "Roof", "Interior"} :
            run.feats[k] # None /\ run.feats[k] # <<>>

----------------------------------------------------------------------------
(* C4 *)

\* The lookups of lines 138-151 never come back empty: every (Make, Model,
\* Series) the three selectboxes can hold is a key of engines, roofs and
\* interiors.  The case C4 is about does not arise in a run of the script.
OptionListsNeverEmpty ==
    run.kind = "run" =>
        /\ run.elist # <<>>
        /\ <<run.widgets.Make, run.widgets.Model, run.widgets.Series>>
              \in DOMAIN idx.roofs \cap DOMAIN idx.interiors

====
